---- MODULE Spec2Model ----
(***************************************************************************)
(* A model of the OntoEmma alignment orchestrator (src/src/OntoEmma.py):   *)
(* evaluate_alignment, align / write_alignment and train, each translated  *)
(* statement by statement.  Python floats that are quotients of set sizes  *)
(* are kept as exact fractions num/den; classifier scores are integers in  *)
(* thousandths.  An uncaught Python exception is pc = "raised" with the    *)
(* exception's class in err.                                               *)
(***************************************************************************)
EXTENDS Integers, Sequences, FiniteSets, TLC

\* ------------------------------------------------------------------ bounds
\* most rows a gold alignment file holds
MaxGold == 2
\* most tuples of the alignment handed to a stand-alone evaluate_alignment
MaxAlign == 2
\* most target ids select_candidates returns for one source entity
MaxCands == 3
\* most rows of the training file, and of the development file
MaxTrain == 4
MaxDev == 2
\* most train calls made on one OntoEmma instance
MaxTrainCalls == 2
\* most tuples of the alignment handed to a stand-alone write_alignment
MaxWritten == 3
\* most calculate_features calls made on one FeatureGenerator
MaxQueries == 3
\* most lines of the data file the dataset reader reads
MaxInstances == 2

\* ------------------------------------------------------------ constants
\* scigraph.ontology_matching.constants (imported at line 19), scaled down;
\* align reads these two at lines 302 and 305
KEEP_TOP_K_CANDIDATES == 2
\* 0.7, in thousandths
SCORE_THRESHOLD == 700
\* train reads these two at lines 45-50 and 212
MIN_TRAINING_SET_SIZE == 1
TRAINING_KBS == <<<<"A">>, <<"B">>, <<"C">>>>
\* _compute_tokens reads this one at line 71
NGRAM_SIZE == 2

\* ----------------------------------------------------------------- helpers
RECURSIVE BoundedSubsets(_, _)
\* the subsets of S with at most n elements
BoundedSubsets(S, n) ==
    IF n = 0 THEN {{}}
    ELSE LET smaller == BoundedSubsets(S, n - 1)
         IN  smaller \cup {T \cup {x} : T \in smaller, x \in S}

RECURSIVE SeqOfSet(_)
\* the elements of a finite set, as a list in some fixed order
SeqOfSet(S) ==
    IF S = {} THEN <<>>
    ELSE LET x == CHOOSE y \in S : TRUE
         IN  <<x>> \o SeqOfSet(S \ {x})

Range(q) == {q[i] : i \in 1..Len(q)}

\* ------------------------------------------------------- Python values
\* the Python object None, a str, a float (whole numbers suffice for labels)
PyNone == [kind |-> "None", text |-> "", val |-> 0]
PyStr(t) == [kind |-> "str", text |-> t, val |-> 0]
PyFloat(v) == [kind |-> "float", text |-> "", val |-> v]

\* the texts a gold file's label column / <measure> element holds here
MeasureTexts == {"1.0", "0.0", "-1.0", "=", ""}
\* an empty <measure/> element: lxml's .text is None
NoText == "<None>"

\* float(text): the texts Python's float() accepts, and their values
FloatParseable == {"1.0", "0.0", "-1.0"}
FloatOfText(t) == CASE t = "1.0" -> 1 [] t = "0.0" -> 0 [] t = "-1.0" -> -1

\* float(x) raises ValueError (x a str that is no number)
FloatRaises(x) == x.kind = "str" /\ x.text \notin FloatParseable
\* float(x) for a float or a parseable str
FloatOf(x) == IF x.kind = "float" THEN x.val ELSE FloatOfText(x.text)

\* an optional fraction: Python's None, or the float num/den
NoValue == [def |-> FALSE, num |-> 0, den |-> 1]
Frac(n, d) == [def |-> TRUE, num |-> n, den |-> d]
FracEq(a, b) == a.def /\ b.def /\ a.num * b.den = b.num * a.den
FracAdd(a, b) == Frac(a.num * b.den + b.num * a.den, a.den * b.den)
FracMul(a, b) == Frac(a.num * b.num, a.den * b.den)
FracDiv(a, b) == Frac(a.num * b.den, a.den * b.num)
FracScale(k, a) == Frac(k * a.num, a.den)
FracPositive(a) == a.num * a.den > 0

\* ------------------------------------------------------ knowledge bases
\* entity ids that occur in alignments; s2 and t2 are in no loaded KB
SourceIds == {"s1", "s2"}
TargetIds == {"t1", "t2"}
Pairs == SourceIds \X TargetIds

\* a loaded KnowledgeBase: its name (a text, as the list of its pieces), the ids
\* of kb.entities in order, and the aliases of each entity
Kb(name, ids, aliases) == [name |-> name, ids |-> ids, aliases |-> aliases]
\* KnowledgeBase(): no name, no entities
EmptyKb == Kb(<<>>, <<>>, <<>>)
AliasesOf == [id \in SourceIds \cup TargetIds |->
                CASE id = "s1" -> <<"heart", "cor">>
                  [] id = "t1" -> <<"heart">>
                  [] OTHER -> <<id>>]
KbOf(name, ids) == Kb(name, ids, [id \in Range(ids) |-> AliasesOf[id]])

\* the KBs handed to a stand-alone evaluate_alignment
EvalSourceKb == KbOf(<<"S">>, <<"s1">>)
EvalTargetKb == KbOf(<<"T">>, <<"t1">>)

\* KnowledgeBase.get_entity_by_research_entity_id: the entity, or None
KbHas(kb, id) == id \in DOMAIN kb.aliases

\* ------------------------------------------------------------ gold files
\* a row of a gold file: source id, target id, label / measure text
GoldRow(s, t, m) == <<s, t, m>>
AllGoldRows == {GoldRow(p[1], p[2], m) : p \in Pairs, m \in MeasureTexts \cup {NoText}}

\* _load_alignment_from_tsv: float(label) of every row
TsvRaises(rows) == \E r \in rows : FloatRaises(PyStr(r[3]))
LoadTsv(rows) == {<<r[1], r[2], PyFloat(FloatOfText(r[3]))>> : r \in rows}

\* _load_alignment_from_rdf: the measure as raw text (None when empty)
LoadRdf(rows) ==
    {<<r[1], r[2], IF r[3] = NoText THEN PyNone ELSE PyStr(r[3])>> : r \in rows}

\* load_alignment: dispatch on the extension of gold_path
LoadRaises(fext, rows) ==
    CASE fext = ".tsv" -> IF TsvRaises(rows) THEN "ValueError" ELSE "none"
      [] fext = ".rdf" -> "none"
      [] OTHER -> "NotImplementedError"
LoadAlignment(fext, rows) ==
    CASE fext = ".tsv" -> LoadTsv(rows)
      [] fext = ".rdf" -> LoadRdf(rows)
      [] OTHER -> {}

VARIABLES
    pc,                  \* where the running operation stands
    err,                 \* class of the exception that ended it, or "none"
    caller,              \* who called evaluate_alignment: "top" or "align"
    gold_fext,           \* extension of gold_path
    gold_rows,           \* rows of the gold file
    alignment,           \* list of (source id, target id, score)
    s_kb, t_kb,          \* the KBs in use
    gold_positives,      \* evaluate_alignment's locals
    alignment_positives,
    missed_todo,         \* pairs of missed the loop has yet to visit
    precision, recall, f1_score,
    index,               \* align: source entities the loop is through with
    cands,               \* align: candidates of the current entity yet to score
    selected,            \* what select_candidates returned, per source id
    feature_calls,       \* calculate_features calls, per source id
    visits,              \* turns of align's outer loop, per source id
    model_probs,         \* the classifier's match probability, per scored pair
    output_path,         \* align's output_path argument
    missed_file,         \* the diagnostics file: opened?, lines written
    out_dir_made,        \* os.makedirs created the output directory
    out_file,            \* the alignment file written
    kb_pairs_pos,        \* self.kb_pairs: pairs the iterator has yielded so far
    training_data,       \* rows of the training file
    dev_data,            \* rows of the development file
    training_ordered_indices, training_features, training_labels,
    dev_ordered_indices, dev_features, dev_labels,
    kb_loads,            \* names of the KBs loaded in this train call, in order
    generators,          \* (s_kb_name, t_kb_name) of each FeatureGenerator built
    visited,             \* the KB pairs the loop of this train call went through
    train_calls,         \* train calls started on this instance
    first_call,          \* what the first train call ended with
    reread,              \* what _load_alignment_from_tsv read back from out_file
    kb_paths,            \* the s_kb_path and t_kb_path handed to load_kb
    kb_loaded,           \* what each load_kb call so far did
    s_tokens, t_tokens,  \* FeatureGenerator: the token signature of every entity id
    fg_asked,            \* the ids of the calculate_features call made last
    fg_log,              \* the calculate_features calls that returned, with results
    rng_seed,            \* dataset reader: the seed every run gives the generator
    rng,                 \* the state of the random module's generator
    instances,           \* the (source entity, target entity) lines of the data file
    read_pos,            \* lines the running read has turned into instances
    run,                 \* 1 in the first run of the reader, 2 in the second
    sampled,             \* the lists text_to_instance kept, per line of this run
    first_run            \* sampled, as the first run left it

inputVars == <<gold_fext, gold_rows, s_kb, t_kb>>
evalLocals == <<gold_positives, alignment_positives, missed_todo>>
evalResult == <<precision, recall, f1_score>>
alignLoop == <<index, cands, selected, feature_calls, visits, model_probs>>
outVars == <<output_path, out_dir_made, out_file>>
trainInput == <<training_data, dev_data>>
trainLocals == <<training_ordered_indices, training_features, training_labels,
                 dev_ordered_indices, dev_features, dev_labels>>
trainTrace == <<kb_loads, generators, visited, train_calls, first_call>>
trainVars == <<kb_pairs_pos, trainInput, trainLocals, trainTrace>>

\* the variables of evaluate_alignment, align and train, pc and err aside
orchestratorVars == <<caller, alignment, inputVars, evalLocals, evalResult, alignLoop,
                      outVars, missed_file, trainVars>>
\* the variables evaluate_alignment, align and train never touch
loadVars == <<kb_paths, kb_loaded>>
fgVars == <<s_tokens, t_tokens, fg_asked, fg_log>>
readerVars == <<rng_seed, rng, instances, read_pos, run, sampled, first_run>>
restVars == <<reread, loadVars, fgVars, readerVars>>

vars == <<pc, err, caller, alignment, inputVars, evalLocals, evalResult, alignLoop,
          outVars, missed_file, trainVars, restVars>>

\* ---------------------------------------------------- evaluate_alignment
\* the condition of the comprehension, for one loaded mapping
ScoreTestRaises(score) ==
    score.kind # "None" /\ ~(score.kind = "str" /\ score.text = "") /\ FloatRaises(score)
ScoreIsPositive(score) ==
    score.kind # "None" /\ ~(score.kind = "str" /\ score.text = "") /\ FloatOf(score) > 0

GoldPositivesOf(mappings) ==
    {<<m[1], m[2]>> : m \in {x \in mappings : ScoreIsPositive(x[3])}}

AlignmentPositivesOf(al) == {<<al[i][1], al[i][2]>> : i \in 1..Len(al)}

\* lines 328-345: load the gold file, build both sets of pairs
EvalLoadGold ==
    /\ pc = "eval_load"
    /\ LET raised == LoadRaises(gold_fext, gold_rows)
           mappings == LoadAlignment(gold_fext, gold_rows)
       IN  IF raised # "none"
           THEN /\ pc' = "raised" /\ err' = raised
                /\ UNCHANGED <<gold_positives, alignment_positives>>
           ELSE IF \E m \in mappings : ScoreTestRaises(m[3])
           THEN /\ pc' = "raised" /\ err' = "ValueError"
                /\ UNCHANGED <<gold_positives, alignment_positives>>
           ELSE /\ gold_positives' = GoldPositivesOf(mappings)
                /\ alignment_positives' = AlignmentPositivesOf(alignment)
                /\ pc' = "eval_open"
                /\ err' = err
    /\ UNCHANGED <<restVars, caller, alignment, inputVars, missed_todo, evalResult, alignLoop,
                   outVars, missed_file,
                   trainVars>>

\* lines 347-349: missed, and open(self.missed_file, 'w')
EvalOpenMissed ==
    /\ pc = "eval_open"
    /\ missed_todo' = gold_positives \ alignment_positives
    /\ missed_file' = [opened |-> TRUE, lines |-> <<>>]
    /\ pc' = "eval_missed"
    /\ UNCHANGED <<restVars, err, caller, alignment, inputVars, gold_positives,
                   alignment_positives, evalResult, alignLoop, outVars,
                   trainVars>>

\* the line of one missed pair: both alias lists, or the except branch's ''
MutMissedLine(s_ent, t_ent) ==
    IF KbHas(s_kb, s_ent) /\ KbHas(t_kb, t_ent)
    THEN <<s_ent, t_ent, s_kb.aliases[s_ent], t_kb.aliases[t_ent]>>
    ELSE <<s_ent, t_ent,
           IF KbHas(s_kb, s_ent) THEN s_kb.aliases[s_ent] ELSE <<>>, <<>>>>
MissedLine(s_ent, t_ent) ==
    IF KbHas(s_kb, s_ent) /\ KbHas(t_kb, t_ent)
    THEN <<s_ent, t_ent, s_kb.aliases[s_ent], t_kb.aliases[t_ent]>>
    ELSE <<s_ent, t_ent, <<>>, <<>>>>

\* lines 350-365: one turn of the loop over missed (a set: any order)
EvalWriteMissed ==
    /\ pc = "eval_missed"
    /\ \E p \in missed_todo :
         /\ missed_file' = [missed_file EXCEPT !.lines = Append(@, MissedLine(p[1], p[2]))]
         /\ missed_todo' = missed_todo \ {p}
    /\ UNCHANGED <<restVars, pc, err, caller, alignment, inputVars, gold_positives,
                   alignment_positives, evalResult, alignLoop, outVars,
                   trainVars>>

\* lines 372-375: the two quotients
PrecisionOf(ap, gp) == Frac(Cardinality(ap \cap gp), Cardinality(ap))
MutRecallOf(ap, gp) == Frac(Cardinality(ap \cap gp), Cardinality(ap))
RecallOf(ap, gp) == Frac(Cardinality(ap \cap gp), Cardinality(gp))
\* line 377
F1Of(p, r) == FracDiv(FracScale(2, FracMul(p, r)), FracAdd(p, r))

\* lines 367-386: precision, recall, F1 and the return
EvalScore ==
    /\ pc = "eval_missed"
    /\ missed_todo = {}
    /\ IF Cardinality(alignment_positives) > 0
       THEN IF Cardinality(gold_positives) = 0
            THEN \* line 374 divides by len(gold_positives)
                 /\ pc' = "raised" /\ err' = "ZeroDivisionError"
                 /\ UNCHANGED <<precision, recall, f1_score>>
            ELSE LET p == PrecisionOf(alignment_positives, gold_positives)
                     r == RecallOf(alignment_positives, gold_positives)
                 IN  /\ precision' = p
                     /\ recall' = r
                     /\ f1_score' = IF FracPositive(FracAdd(p, r)) THEN F1Of(p, r) ELSE NoValue
                     /\ pc' = "eval_done"
                     /\ err' = err
       ELSE /\ pc' = "eval_done"
            /\ UNCHANGED <<err, precision, recall, f1_score>>
    /\ UNCHANGED <<restVars, caller, alignment, inputVars, evalLocals, alignLoop, outVars,
                   missed_file, trainVars>>

\* ------------------------------------------------------------------ align
\* the KBs load_kb returns for the two paths handed to align
AlignSourceKbs == {KbOf(<<"s.owl">>, <<"s1">>), KbOf(<<"s.owl">>, <<"s1", "s2">>)}
AlignTargetKb == KbOf(<<"t.owl">>, <<"t1", "t2">>)

RECURSIVE SeqsUpTo(_, _)
\* the lists over S of length at most n
SeqsUpTo(S, n) ==
    IF n = 0 THEN {<<>>}
    ELSE LET shorter == SeqsUpTo(S, n - 1)
         IN  shorter \cup {Append(q, x) : q \in shorter, x \in S}

\* CandidateSelection.select_candidates: some ranked list of target ids
CandidateLists == SeqsUpTo(Range(AlignTargetKb.ids), MaxCands)

\* OntoEmmaModel.predict_entity_pair: score[0][1], in thousandths
Scores == {699, 700}

\* gold_path as handed to align: None (or no such file), or a gold file
AlignGoldFiles ==
    {<<".rdf", R>> : R \in SUBSET {GoldRow("s1", "t1", "1.0"), GoldRow("s2", "t2", "=")}}

\* output_path as handed to align: None, or a path whose directory exists
\* ("present"), can be made ("absent") or cannot ("unmakeable")
NoOutputPath == [given |-> FALSE, dir |-> "", fext |-> ""]
OutputPaths ==
    {NoOutputPath} \cup
    [given : {TRUE}, dir : {"present", "absent", "unmakeable"},
     fext : {".tsv", ".rdf", ".txt"}]

Min(a, b) == IF a < b THEN a ELSE b

\* line 302: the slice [:constants.KEEP_TOP_K_CANDIDATES]
MutTopK(list) == list
TopK(list) == SubSeq(list, 1, Min(KEEP_TOP_K_CANDIDATES, Len(list)))

\* line 305: score[0][1] >= constants.SCORE_THRESHOLD
MutKeepsPair(score) == score > SCORE_THRESHOLD
KeepsPair(score) == score >= SCORE_THRESHOLD

\* lines 278-291: load both KBs and the model, build the indices
AlignStart ==
    /\ pc = "align_start"
    /\ s_kb' \in AlignSourceKbs
    /\ t_kb' = AlignTargetKb
    /\ alignment' = <<>>
    /\ index' = 0
    /\ pc' = "align_loop"
    /\ UNCHANGED <<restVars, err, caller, gold_fext, gold_rows, evalLocals, evalResult, cands,
                   selected, feature_calls, visits, model_probs, outVars, missed_file,
                   trainVars>>

\* lines 292-302: the next source entity and its top-K candidates
AlignNextSource ==
    /\ pc = "align_loop"
    /\ index < Len(s_kb.ids)
    /\ LET s_ent_id == s_kb.ids[index + 1]
       IN  \E list \in CandidateLists :
             /\ selected' = (s_ent_id :> list) @@ selected
             /\ cands' = TopK(list)
             /\ visits' = [visits EXCEPT ![s_ent_id] = @ + 1]
    /\ pc' = "align_cand"
    /\ UNCHANGED <<restVars, err, caller, alignment, inputVars, evalLocals, evalResult, index,
                   feature_calls, model_probs, outVars, missed_file,
                   trainVars>>

\* lines 303-306: features and score of one candidate, kept at the threshold
AlignScoreCandidate ==
    /\ pc = "align_cand"
    /\ cands # <<>>
    /\ LET s_ent_id == s_kb.ids[index + 1]
           t_ent_id == Head(cands)
           pair == <<s_ent_id, t_ent_id>>
       IN  /\ feature_calls' = [feature_calls EXCEPT ![s_ent_id] = @ + 1]
           /\ \E score \in Scores :
                /\ pair \in DOMAIN model_probs => score = model_probs[pair]
                /\ model_probs' = (pair :> score) @@ model_probs
                /\ alignment' = IF KeepsPair(score)
                                THEN Append(alignment, <<s_ent_id, t_ent_id, score>>)
                                ELSE alignment
    /\ cands' = Tail(cands)
    /\ UNCHANGED <<restVars, pc, err, caller, inputVars, evalLocals, evalResult, index, selected,
                   visits, outVars, missed_file,
                   trainVars>>

\* the inner loop is through: back to line 292
AlignSourceDone ==
    /\ pc = "align_cand"
    /\ cands = <<>>
    /\ index' = index + 1
    /\ pc' = "align_loop"
    /\ UNCHANGED <<restVars, err, caller, alignment, inputVars, evalLocals, evalResult, cands,
                   selected, feature_calls, visits, model_probs, outVars, missed_file,
                   trainVars>>

\* lines 308-312: evaluate against the gold file when there is one
AlignAfterLoop ==
    /\ pc = "align_loop"
    /\ index = Len(s_kb.ids)
    /\ \/ /\ pc' = "align_write"
          /\ UNCHANGED <<caller, gold_fext, gold_rows>>
       \/ \E f \in AlignGoldFiles :
            /\ gold_fext' = f[1]
            /\ gold_rows' = f[2]
            /\ caller' = "align"
            /\ pc' = "eval_load"
    /\ UNCHANGED <<restVars, err, alignment, s_kb, t_kb, evalLocals, evalResult, alignLoop,
                   outVars, missed_file,
                   trainVars>>

\* evaluate_alignment returned to align (line 312)
AlignEvalReturn ==
    /\ pc = "eval_done"
    /\ caller = "align"
    /\ pc' = "align_write"
    /\ UNCHANGED <<restVars, err, caller, alignment, inputVars, evalLocals, evalResult, alignLoop,
                   outVars, missed_file,
                   trainVars>>

RECURSIVE InsertDesc(_, _)
\* x put behind every tuple of the sorted list q whose score is not smaller
InsertDesc(x, q) ==
    IF q = <<>> THEN <<x>>
    ELSE IF Head(q)[3] >= x[3] THEN <<Head(q)>> \o InsertDesc(x, Tail(q))
    ELSE <<x>> \o q

\* an alignment written in the order it came in
MutSortedByScore(al) == al

RECURSIVE SortedByScore(_)
\* sorted(alignment, key=lambda x: x[2], reverse=True): stable
SortedByScore(al) ==
    IF al = <<>> THEN <<>>
    ELSE InsertDesc(al[Len(al)], SortedByScore(SubSeq(al, 1, Len(al) - 1)))

\* '{0:.2f}'.format(pred), in hundredths (no score here ends in 5 thousandths)
Format2f(pred) == (pred + 5) \div 10

\* the decimal digits as characters
Digits == <<"0", "1", "2", "3", "4", "5", "6", "7", "8", "9">>
DigitText(d) == Digits[d + 1]
DigitValue(c) == CHOOSE d \in 0..9 : Digits[d + 1] = c

RECURSIVE NatText(_)
\* the decimal numeral of a natural number
NatText(n) == IF n < 10 THEN <<DigitText(n)>> ELSE NatText(n \div 10) \o <<DigitText(n % 10)>>

\* an alignment written with two decimals where "%s" belongs
MutStrOfFloat(pred) ==
    LET hundredths == (pred + 5) \div 10
    IN  NatText(hundredths \div 100) \o <<".">>
          \o <<DigitText((hundredths \div 10) % 10), DigitText(hundredths % 10)>>

\* "%s" % pred for a float of at most three decimals (pred in thousandths): the
\* shortest numeral that reads back as pred, with at least one decimal
StrOfFloat(pred) ==
    LET d1 == (pred % 1000) \div 100
        d2 == (pred \div 10) % 10
        d3 == pred % 10
        decimals == IF d3 # 0 THEN <<DigitText(d1), DigitText(d2), DigitText(d3)>>
                    ELSE IF d2 # 0 THEN <<DigitText(d1), DigitText(d2)>>
                    ELSE <<DigitText(d1)>>
    IN  NatText(pred \div 1000) \o <<".">> \o decimals

\* _write_alignment_to_tsv: one line of four columns per tuple, by descending
\* score
TsvLines(al) ==
    LET sorted == SortedByScore(al)
    IN  [i \in 1..Len(sorted) |->
           <<sorted[i][1], sorted[i][2], StrOfFloat(sorted[i][3]), "OntoEmma">>]

\* _write_alignment_to_rdf: the headers and one <map> per tuple
RdfDocument(al, s_kb_path, t_kb_path) ==
    LET sorted == SortedByScore(al)
    IN  [onto1 |-> s_kb_path, onto2 |-> t_kb_path,
         maps |-> [i \in 1..Len(sorted) |->
                     [entity1 |-> sorted[i][1], entity2 |-> sorted[i][2],
                      measure |-> Format2f(sorted[i][3])]]]

\* lines 491-502: the directory is made before the extension is looked at
MakesDir(path) == path.dir = "absent"
\* where the file goes: the path given, or the working directory
WrittenTo(path) == IF path.dir = "unmakeable" THEN "cwd" ELSE "path"

\* lines 314-317 and write_alignment, lines 482-514
AlignWrite ==
    /\ pc = "align_write"
    /\ \E path \in OutputPaths :
         /\ output_path' = path
         /\ IF ~path.given
            THEN /\ pc' = "align_done"
                 /\ UNCHANGED <<err, out_dir_made, out_file>>
            ELSE /\ out_dir_made' = MakesDir(path)
                 /\ CASE path.fext = ".tsv" ->
                           /\ out_file' = [written |-> TRUE, where |-> WrittenTo(path),
                                           format |-> "tsv", content |-> TsvLines(alignment)]
                           /\ pc' = "align_done"
                           /\ err' = err
                      [] path.fext = ".rdf" ->
                           /\ out_file' = [written |-> TRUE, where |-> WrittenTo(path),
                                           format |-> "rdf",
                                           content |-> RdfDocument(alignment, s_kb.name,
                                                                   t_kb.name)]
                           /\ pc' = "align_done"
                           /\ err' = err
                      [] OTHER ->
                           /\ pc' = "raised"
                           /\ err' = "NotImplementedError"
                           /\ out_file' = out_file
    /\ UNCHANGED <<restVars, caller, alignment, inputVars, evalLocals, evalResult, alignLoop,
                   missed_file, trainVars>>

\* ------------------------------------------- reading a written file back
\* the places of the decimal point in a numeral
PointsOf(text) == {i \in 1..Len(text) : text[i] = "."}

\* float(text) raises ValueError: text is no numeral with one decimal point
\* and digits around it
TextFloatRaises(text) ==
    \/ Cardinality(PointsOf(text)) # 1
    \/ Len(text) < 2
    \/ \E i \in 1..Len(text) : text[i] # "." /\ text[i] \notin Range(Digits)

RECURSIVE NatOfText(_)
\* the natural number a run of digits spells
NatOfText(text) ==
    IF text = <<>> THEN 0
    ELSE 10 * NatOfText(SubSeq(text, 1, Len(text) - 1)) + DigitValue(text[Len(text)])

\* float(text), in thousandths, for a numeral of at most three decimals
FloatOfStr(text) ==
    LET point == CHOOSE i \in PointsOf(text) : TRUE
        whole == SubSeq(text, 1, point - 1)
        decimals == SubSeq(text, point + 1, Len(text))
        padded == decimals \o [i \in 1..(3 - Len(decimals)) |-> "0"]
    IN  1000 * NatOfText(whole) + NatOfText(padded)

\* _load_alignment_from_tsv on a file given line by line: the unpacking into
\* four columns or float(label) raises ValueError
ReadTsvRaises(lines) ==
    \E i \in 1..Len(lines) : Len(lines[i]) # 4 \/ TextFloatRaises(lines[i][3])
\* the list of mappings it returns
ReadTsv(lines) ==
    [i \in 1..Len(lines) |-> <<lines[i][1], lines[i][2], FloatOfStr(lines[i][3])>>]

\* _load_alignment_from_tsv(output_path) after write_alignment wrote a .tsv file
LoadWrittenTsv ==
    /\ pc = "align_done"
    /\ out_file.written
    /\ out_file.format = "tsv"
    /\ IF ReadTsvRaises(out_file.content)
       THEN /\ pc' = "raised"
            /\ err' = "ValueError"
            /\ reread' = reread
       ELSE /\ pc' = "reread_done"
            /\ err' = err
            /\ reread' = ReadTsv(out_file.content)
    /\ UNCHANGED <<orchestratorVars, loadVars, fgVars, readerVars>>

\* ---------------------------------------------------------------- load_kb
\* a path is the list of its pieces: directories or scheme and host, the stem,
\* the extension
KbExtensions ==
    {".json", ".pickle", ".pkl", ".obo", ".OBO", ".owl", ".rdf", ".OWL", ".RDF",
     ".ttl", ".n3", ".JSON", ".xml"}
LocalPaths == {<<"data/", "kb">>} \cup {<<"data/", "kb", e>> : e \in KbExtensions}
UrlPaths ==
    {<<"http://", "host/", "kb">>} \cup {<<"http://", "host/", "kb", e>> : e \in KbExtensions}
KbPaths == LocalPaths \cup UrlPaths

\* str.startswith
StartsWith(text, prefix) ==
    Len(prefix) <= Len(text) /\ SubSeq(text, 1, Len(prefix)) = prefix
\* str.endswith
EndsWith(text, suffix) ==
    Len(suffix) <= Len(text)
    /\ SubSeq(text, Len(text) - Len(suffix) + 1, Len(text)) = suffix
\* URLValidator()(kb_path) passes: a scheme and a host
IsUrl(path) == StartsWith(path, <<"http://", "host/">>)

RECURSIVE Basename(_)
\* os.path.basename: what follows the last separator
Basename(path) ==
    IF path = <<>> THEN <<>>
    ELSE IF path[Len(path)] \in {"data/", "http://", "host/"} THEN <<>>
    ELSE Basename(SubSeq(path, 1, Len(path) - 1)) \o <<path[Len(path)]>>

\* what a load_kb call did: the exception it raised if any, the loader it
\* called, the name and the file handed to that loader, whether the path was
\* fetched first
LoadOutcome(raised, loader, name, file, fetched) ==
    [raised |-> raised, loader |-> loader, name |-> name, file |-> file,
     fetched |-> fetched]

\* lines 69-96; response_ok: response.raise_for_status() passes
LoadKb(kb_path, response_ok) ==
    LET kb_name == Basename(kb_path)
    IN  IF \/ EndsWith(kb_path, <<".json">>) \/ EndsWith(kb_path, <<".pickle">>)
           \/ EndsWith(kb_path, <<".pkl">>)
        THEN LoadOutcome("none", "KnowledgeBase.load", <<>>, kb_path, FALSE)
        ELSE IF EndsWith(kb_path, <<".obo">>) \/ EndsWith(kb_path, <<".OBO">>)
        THEN LoadOutcome("none", "import_obo_kb", kb_name, kb_path, FALSE)
        ELSE IF \/ EndsWith(kb_path, <<".owl">>) \/ EndsWith(kb_path, <<".rdf">>)
                \/ EndsWith(kb_path, <<".OWL">>) \/ EndsWith(kb_path, <<".RDF">>)
        THEN LoadOutcome("none", "import_owl_kb", kb_name, kb_path, FALSE)
        ELSE IF EndsWith(kb_path, <<".ttl">>) \/ EndsWith(kb_path, <<".n3">>)
        THEN LoadOutcome("NotImplementedError", "none", <<>>, <<>>, FALSE)
        ELSE IF ~IsUrl(kb_path)
        THEN LoadOutcome("ValidationError", "none", <<>>, <<>>, FALSE)
        ELSE IF ~response_ok
        THEN LoadOutcome("HTTPError", "none", <<>>, <<>>, TRUE)
        ELSE LoadOutcome("none", "import_owl_kb", <<>>, <<"temp_file_ontoemma", ".owl">>,
                         TRUE)

\* s_kb = self.load_kb(s_kb_path), lines 279 and 399
LoadSourceKb ==
    /\ pc = "load_s_kb"
    /\ \E response_ok \in BOOLEAN :
         LET outcome == LoadKb(kb_paths[1], response_ok)
         IN  /\ kb_loaded' = Append(kb_loaded, outcome)
             /\ IF outcome.raised = "none"
                THEN pc' = "load_t_kb" /\ err' = err
                ELSE pc' = "raised" /\ err' = outcome.raised
    /\ UNCHANGED <<orchestratorVars, reread, kb_paths, fgVars, readerVars>>

\* t_kb = self.load_kb(t_kb_path), lines 280 and 400
LoadTargetKb ==
    /\ pc = "load_t_kb"
    /\ \E response_ok \in BOOLEAN :
         LET outcome == LoadKb(kb_paths[2], response_ok)
         IN  /\ kb_loaded' = Append(kb_loaded, outcome)
             /\ IF outcome.raised = "none"
                THEN pc' = "kbs_loaded" /\ err' = err
                ELSE pc' = "raised" /\ err' = outcome.raised
    /\ UNCHANGED <<orchestratorVars, reread, kb_paths, fgVars, readerVars>>

\* ------------------------------------------------------- FeatureGenerator
\* A text is the list of its pieces: words, and marks that are no words.
\* scigraph.ontology_matching.string_utils (imported at line 8) and the nltk
\* stemmer, lemmatizer and edit distance (lines 3-5) on such texts:
Punctuation == {"-"}
Lower(w) == IF w = "Heart" THEN "heart" ELSE w
\* normalize_string: lower case, marks dropped
NormalizeString(text) ==
    LET kept == SelectSeq(text, LAMBDA w : w \notin Punctuation)
    IN  [i \in 1..Len(kept) |-> Lower(kept[i])]
\* line 23: stopwords.words('english')
STOP == {"the", "of"}
\* tokenize_string: the words that are no stop words, as a tuple
TokenizeString(text) == SelectSeq(text, LAMBDA w : w \notin STOP)
\* SnowballStemmer("english").stem
Stem(w) ==
    CASE w = "hearts" -> "heart"
      [] w \in {"disease", "diseases"} -> "diseas"
      [] OTHER -> w
\* WordNetLemmatizer().lemmatize
Lemmatize(w) ==
    CASE w = "hearts" -> "heart"
      [] w = "diseases" -> "disease"
      [] OTHER -> w
\* get_character_n_grams: the windows of n pieces; one n-gram, the whole text,
\* when the text is shorter than n
CharacterNGrams(text, n) ==
    IF Len(text) < n THEN <<text>>
    ELSE [i \in 1..(Len(text) - n + 1) |-> SubSeq(text, i, i + n - 1)]
\* get_jaccard_similarity: 1.0 for two empty sets
JaccardSimilarity(A, B) ==
    IF A \cup B = {} THEN Frac(1, 1)
    ELSE Frac(Cardinality(A \cap B), Cardinality(A \cup B))

RECURSIVE EditDistance(_, _)
\* nltk edit_distance over two token sequences (Levenshtein)
EditDistance(a, b) ==
    IF a = <<>> THEN Len(b)
    ELSE IF b = <<>> THEN Len(a)
    ELSE Min(Min(EditDistance(Tail(a), b) + 1, EditDistance(a, Tail(b)) + 1),
             EditDistance(Tail(a), Tail(b)) + (IF Head(a) = Head(b) THEN 0 ELSE 1))

\* lines 16-17
PARENT_REL_LABELS == {"RB", "PAR", "Is a", "Part of", "subClassOf", "is_a", "part_of"}
CHILD_REL_LABELS == {"RN", "CHD", "Has part", "subClass", "has_part"}

\* a KBEntity and a KBRelation as the FeatureGenerator reads them
Entity(id, canonical_name, aliases, relation_ids) ==
    [research_entity_id |-> id, canonical_name |-> canonical_name,
     aliases |-> aliases, relation_ids |-> relation_ids]
Relation(relation_type, from, to) ==
    [relation_type |-> relation_type, entity_ids |-> <<from, to>>]

\* the two KBs the FeatureGenerator is built on.  s2 is named by a mark only and
\* t2 has no name; "x9" is in neither KB
FgSourceKb ==
    [name |-> <<"S">>,
     entities |->
       << Entity("s1", <<"Heart">>, << <<"cor">>, <<"the", "heart">> >>, <<"r1", "r2", "r3">>),
          Entity("s2", <<"-">>, << <<"the">> >>, <<>>),
          Entity("s3", <<"heart", "diseases">>, <<>>, <<"r4">>),
          Entity("s4", <<"hearts">>, << <<"heart", "disease">> >>, <<"r5", "r6">>) >>,
     relations |->
       [r \in {"r1", "r2", "r3", "r4", "r5", "r6"} |->
          CASE r = "r1" -> Relation("subClassOf", "s1", "s3")
            [] r = "r2" -> Relation("SIB", "s1", "s2")
            [] r = "r3" -> Relation("is_a", "s1", "x9")
            [] r = "r4" -> Relation("has_part", "s3", "s1")
            [] r = "r5" -> Relation("part_of", "s4", "s3")
            [] r = "r6" -> Relation("subClassOf", "s4", "s1")]]
FgTargetKb ==
    [name |-> <<"T">>,
     entities |->
       << Entity("t1", <<"heart">>, << <<"cor">> >>, <<"q1">>),
          Entity("t2", <<>>, << <<"of">> >>, <<>>),
          Entity("t3", <<"heart", "disease">>, << <<"disease", "heart">> >>, <<"q2">>) >>,
     relations |->
       [r \in {"q1", "q2"} |->
          CASE r = "q1" -> Relation("is_a", "t1", "t3")
            [] r = "q2" -> Relation("has_part", "t3", "t1")]]

\* kb.research_entity_id_to_entity_index, as the set of its keys
EntityIndex(kb) == {kb.entities[i].research_entity_id : i \in 1..Len(kb.entities)}
\* kb.get_entity_by_research_entity_id, for an id of the index
EntityById(kb, id) ==
    kb.entities[CHOOSE i \in 1..Len(kb.entities) : kb.entities[i].research_entity_id = id]

\* lines 33-57, with the set() of lines 90-91: the tokenized names of the
\* entities that relations of the given types lead to
EntNamesFromRelations(ent, kb, rel_types) ==
    LET matching_rels == [i \in 1..Len(ent.relation_ids) |-> kb.relations[ent.relation_ids[i]]]
        ent_ids == {matching_rels[i].entity_ids[2] : i \in
                      {j \in 1..Len(matching_rels) :
                          /\ matching_rels[j].relation_type \in rel_types
                          /\ matching_rels[j].entity_ids[2] \in EntityIndex(kb)}}
    IN  {TokenizeString(NormalizeString(EntityById(kb, id).canonical_name)) : id \in ent_ids}

\* lines 59-92
ComputeTokens(ent, kb) ==
    LET name_string == NormalizeString(ent.canonical_name)
        name_tokens == TokenizeString(name_string)
    IN  [name_tokens |-> name_tokens,
         stemmed_tokens |-> [i \in 1..Len(name_tokens) |-> Stem(name_tokens[i])],
         lemmatized_tokens |-> [i \in 1..Len(name_tokens) |-> Lemmatize(name_tokens[i])],
         character_tokens |-> CharacterNGrams(name_string, NGRAM_SIZE),
         alias_tokens |-> [i \in 1..Len(ent.aliases) |->
                             TokenizeString(NormalizeString(ent.aliases[i]))],
         parent_names |-> EntNamesFromRelations(ent, kb, PARENT_REL_LABELS),
         child_names |-> EntNamesFromRelations(ent, kb, CHILD_REL_LABELS)]

\* lines 94-110: the signature of every entity of a KB, by its id
TokenMap(kb) == [id \in EntityIndex(kb) |-> ComputeTokens(EntityById(kb, id), kb)]

\* two names told apart although neither has a token
MutSameTokens(s_seq, t_seq) == s_seq = t_seq /\ s_seq # <<>>
\* lines 131-134: the equality of two token tuples
SameTokens(s_seq, t_seq) == s_seq = t_seq

\* an alias in common seen by the first call only
MutHasAliasInCommon(s_alias_tokens, t_alias_tokens) ==
    fg_log = <<>> /\ Range(s_alias_tokens) \cap Range(t_alias_tokens) # {}
\* lines 135-137
HasAliasInCommon(s_alias_tokens, t_alias_tokens) ==
    Range(s_alias_tokens) \cap Range(t_alias_tokens) # {}

\* a similarity computed whether or not the two tuples are the same
MutSimilarityOf(same, s_seq, t_seq, max_changes) ==
    [jaccard |-> JaccardSimilarity(Range(s_seq), Range(t_seq)),
     inverse |-> Frac(max_changes - EditDistance(s_seq, t_seq), max_changes)]
\* lines 143-152, and the same for the three other representations (154-185):
\* 1.0 and 1.0 for equal tuples, else the Jaccard similarity of the token sets and
\* 1.0 - edit_distance / max_changes
SimilarityOf(same, s_seq, t_seq, max_changes) ==
    IF same THEN [jaccard |-> Frac(1, 1), inverse |-> Frac(1, 1)]
    ELSE [jaccard |-> JaccardSimilarity(Range(s_seq), Range(t_seq)),
          inverse |-> Frac(max_changes - EditDistance(s_seq, t_seq), max_changes)]

\* a < b for two fractions of positive denominator
FracLess(a, b) == a.num * b.den < b.num * a.den

RECURSIVE AliasLoop(_, _, _, _)
\* lines 191-203: the two nested loops over the alias token lists, from the k-th
\* pair on; best holds max_alias_token_jaccard and min_alias_edit_distance
AliasLoop(s_alias_tokens, t_alias_tokens, k, best) ==
    IF k > Len(s_alias_tokens) * Len(t_alias_tokens) THEN best
    ELSE LET s_a_tokens == s_alias_tokens[((k - 1) \div Len(t_alias_tokens)) + 1]
             t_a_tokens == t_alias_tokens[((k - 1) % Len(t_alias_tokens)) + 1]
             j_ind == JaccardSimilarity(Range(s_a_tokens), Range(t_a_tokens))
             e_dist == Frac(EditDistance(s_a_tokens, t_a_tokens),
                            Len(s_a_tokens) + Len(t_a_tokens))
         IN  IF s_a_tokens # <<>> /\ t_a_tokens # <<>>
             THEN AliasLoop(s_alias_tokens, t_alias_tokens, k + 1,
                            [jaccard |-> IF FracLess(best.jaccard, j_ind)
                                         THEN j_ind ELSE best.jaccard,
                             dist |-> IF FracLess(e_dist, best.dist)
                                      THEN e_dist ELSE best.dist])
             ELSE AliasLoop(s_alias_tokens, t_alias_tokens, k + 1, best)

\* the alias lists gone through whether or not an alias is in common
MutAliasScan(alias_in_common, s_alias_tokens, t_alias_tokens) ==
    AliasLoop(s_alias_tokens, t_alias_tokens, 1,
              [jaccard |-> Frac(0, 1), dist |-> Frac(1, 1)])
\* lines 187-203: 0.0 and 1.0, and the loops only when no alias is in common
AliasScan(alias_in_common, s_alias_tokens, t_alias_tokens) ==
    IF ~alias_in_common
    THEN AliasLoop(s_alias_tokens, t_alias_tokens, 1,
                   [jaccard |-> Frac(0, 1), dist |-> Frac(1, 1)])
    ELSE [jaccard |-> Frac(0, 1), dist |-> Frac(1, 1)]

\* lines 209-226: the names in common over half the sum of the two sizes, 0.0
\* unless both sets have a name
PercentInCommon(s_names, t_names) ==
    IF s_names # {} /\ t_names # {}
    THEN Frac(2 * Cardinality(s_names \cap t_names),
              Cardinality(s_names) + Cardinality(t_names))
    ELSE Frac(0, 1)

\* lines 128-231: the feature dict of two signatures
Features(s_sig, t_sig) ==
    LET max_changes == Len(s_sig.name_tokens) + Len(t_sig.name_tokens)
        max_char_changes == Len(s_sig.character_tokens) + Len(t_sig.character_tokens)
        same_name == SameTokens(s_sig.name_tokens, t_sig.name_tokens)
        same_stemmed == SameTokens(s_sig.stemmed_tokens, t_sig.stemmed_tokens)
        same_lemmatized == SameTokens(s_sig.lemmatized_tokens, t_sig.lemmatized_tokens)
        same_char == SameTokens(s_sig.character_tokens, t_sig.character_tokens)
        alias_in_common == HasAliasInCommon(s_sig.alias_tokens, t_sig.alias_tokens)
        name == SimilarityOf(same_name, s_sig.name_tokens, t_sig.name_tokens, max_changes)
        stemmed == SimilarityOf(same_stemmed, s_sig.stemmed_tokens, t_sig.stemmed_tokens,
                                max_changes)
        lemmatized == SimilarityOf(same_lemmatized, s_sig.lemmatized_tokens,
                                   t_sig.lemmatized_tokens, max_changes)
        char == SimilarityOf(same_char, s_sig.character_tokens, t_sig.character_tokens,
                             max_char_changes)
        alias == AliasScan(alias_in_common, s_sig.alias_tokens, t_sig.alias_tokens)
    IN  [has_same_canonical_name |-> same_name,
         has_same_stemmed_name |-> same_stemmed,
         has_same_lemmatized_name |-> same_lemmatized,
         has_same_char_tokens |-> same_char,
         has_alias_in_common |-> alias_in_common,
         name_token_jaccard |-> name.jaccard,
         inverse_name_edit_distance |-> name.inverse,
         stemmed_token_jaccard |-> stemmed.jaccard,
         inverse_stemmed_edit_distance |-> stemmed.inverse,
         lemmatized_token_jaccard |-> lemmatized.jaccard,
         inverse_lemmatized_edit_distance |-> lemmatized.inverse,
         char_token_jaccard |-> char.jaccard,
         inverse_char_token_edit_distance |-> char.inverse,
         max_alias_token_jaccard |-> alias.jaccard,
         inverse_min_alias_edit_distance |-> Frac(alias.dist.den - alias.dist.num,
                                                  alias.dist.den),
         percent_parents_in_common |-> PercentInCommon(s_sig.parent_names,
                                                       t_sig.parent_names),
         percent_children_in_common |-> PercentInCommon(s_sig.child_names,
                                                        t_sig.child_names)]

\* the features that are floats
NumericFeatures ==
    {"name_token_jaccard", "inverse_name_edit_distance", "stemmed_token_jaccard",
     "inverse_stemmed_edit_distance", "lemmatized_token_jaccard",
     "inverse_lemmatized_edit_distance", "char_token_jaccard",
     "inverse_char_token_edit_distance", "max_alias_token_jaccard",
     "inverse_min_alias_edit_distance", "percent_parents_in_common",
     "percent_children_in_common"}
\* one of the divisions of lines 150-226 has a zero divisor
DividesByZero(features) == \E f \in NumericFeatures : features[f].den = 0

\* the ids calculate_features is called with
FgSourceIds == {"s1", "s2", "s3", "s4", "x9"}
FgTargetIds == {"t1", "t2", "t3", "x9"}

\* lines 14-31: FeatureGenerator(s_kb, t_kb)
BuildGenerator ==
    /\ pc = "fg_new"
    /\ s_tokens' = TokenMap(s_kb)
    /\ t_tokens' = TokenMap(t_kb)
    /\ pc' = "fg_ready"
    /\ UNCHANGED <<err, orchestratorVars, reread, loadVars, fg_asked, fg_log, readerVars>>

\* lines 112-231: one calculate_features call
CalculateFeatures ==
    /\ pc = "fg_ready"
    /\ Len(fg_log) < MaxQueries
    /\ \E s_ent_id \in FgSourceIds, t_ent_id \in FgTargetIds :
         /\ fg_asked' = <<s_ent_id, t_ent_id>>
         /\ IF s_ent_id \notin DOMAIN s_tokens \/ t_ent_id \notin DOMAIN t_tokens
            THEN /\ pc' = "raised"
                 /\ err' = "KeyError"
                 /\ fg_log' = fg_log
            ELSE LET features == Features(s_tokens[s_ent_id], t_tokens[t_ent_id])
                 IN  IF DividesByZero(features)
                     THEN /\ pc' = "raised"
                          /\ err' = "ZeroDivisionError"
                          /\ fg_log' = fg_log
                     ELSE /\ pc' = pc
                          /\ err' = err
                          /\ fg_log' = Append(fg_log, [s |-> s_ent_id, t |-> t_ent_id,
                                                       features |-> features])
    /\ UNCHANGED <<orchestratorVars, reread, loadVars, s_tokens, t_tokens, readerVars>>

\* ---------------------------------------------------------- dataset reader
\* emma/allennlp_classes/ontoemma_dataset_reader_no-context.py.
\* the bounds text_to_instance hands to sample_n: lines 108-109; 129-130, 142-143
AliasesKept == 16
RelationsKept == 8

\* the random module's generator (line 7), a congruential one here: its states,
\* the state after random.seed(seed), the next state, and _randbelow(n) of a state
RngModulus == 64
Seeded(seed) == seed % RngModulus
NextRandom(state) == (5 * state + 3) % RngModulus
RandBelow(state, n) == state % n

RECURSIVE MutSampleLoop(_, _, _, _, _)
\* a sample drawn with the chosen element left in the pool
MutSampleLoop(pool, k, i, result, state) ==
    IF i = k THEN [out |-> result, rng |-> state]
    ELSE LET next == NextRandom(state)
             j == RandBelow(next, Len(pool) - i)
         IN  MutSampleLoop(pool, k, i + 1, Append(result, pool[j + 1]), next)

RECURSIVE SampleLoop(_, _, _, _, _)
\* random.sample(population, k) from its i-th turn on: an element of the pool is
\* drawn and the last element of the pool still in play is put in its place
SampleLoop(pool, k, i, result, state) ==
    IF i = k THEN [out |-> result, rng |-> state]
    ELSE LET next == NextRandom(state)
             j == RandBelow(next, Len(pool) - i)
         IN  SampleLoop([pool EXCEPT ![j + 1] = pool[Len(pool) - i]], k, i + 1,
                        Append(result, pool[j + 1]), next)

\* line 97: sample_n((list, bound)), with the generator's state before and after
SampleN(list, bound, state) ==
    IF Len(list) <= bound THEN [out |-> list, rng |-> state]
    ELSE SampleLoop(list, bound, 0, <<>>, state)

\* the entities of the data file: aliases, parent and child relations, each list
\* made of the numbers of its elements
ReaderEntities ==
    [e \in {"e1", "e2", "e3"} |->
        CASE e = "e1" -> [aliases |-> [i \in 1..2 |-> i],
                          par_relations |-> <<>>,
                          chd_relations |-> [i \in 1..8 |-> i]]
          [] e = "e2" -> [aliases |-> [i \in 1..17 |-> i],
                          par_relations |-> [i \in 1..9 |-> i],
                          chd_relations |-> <<>>]
          [] e = "e3" -> [aliases |-> [i \in 1..16 |-> i],
                          par_relations |-> [i \in 1..8 |-> i],
                          chd_relations |-> [i \in 1..10 |-> i]]]

\* lines 108-143: the six sample_n calls of one text_to_instance call, in order
TextToInstance(s_ent, t_ent, state) ==
    LET s_aliases == SampleN(s_ent.aliases, AliasesKept, state)
        t_aliases == SampleN(t_ent.aliases, AliasesKept, s_aliases.rng)
        s_parrels == SampleN(s_ent.par_relations, RelationsKept, t_aliases.rng)
        t_parrels == SampleN(t_ent.par_relations, RelationsKept, s_parrels.rng)
        s_chdrels == SampleN(s_ent.chd_relations, RelationsKept, t_parrels.rng)
        t_chdrels == SampleN(t_ent.chd_relations, RelationsKept, s_chdrels.rng)
    IN  [s_aliases |-> s_aliases.out, t_aliases |-> t_aliases.out,
         s_parrels |-> s_parrels.out, t_parrels |-> t_parrels.out,
         s_chdrels |-> s_chdrels.out, t_chdrels |-> t_chdrels.out,
         rng |-> t_chdrels.rng]

\* lines 77-83: read turns the next line of the file into an instance
ReadLine ==
    /\ pc = "reading"
    /\ read_pos < Len(instances)
    /\ LET line == instances[read_pos + 1]
           kept == TextToInstance(ReaderEntities[line[1]], ReaderEntities[line[2]], rng)
       IN  /\ sampled' = Append(sampled, [f \in DOMAIN kept \ {"rng"} |-> kept[f]])
           /\ rng' = kept.rng
    /\ read_pos' = read_pos + 1
    /\ UNCHANGED <<pc, err, orchestratorVars, reread, loadVars, fgVars, rng_seed,
                   instances, run, first_run>>

\* lines 85-88: read returns the dataset, or raises on an empty file
ReadReturn ==
    /\ pc = "reading"
    /\ read_pos = Len(instances)
    /\ IF instances = <<>>
       THEN pc' = "raised" /\ err' = "ConfigurationError"
       ELSE pc' = "read_done" /\ err' = err
    /\ UNCHANGED <<orchestratorVars, reread, loadVars, fgVars, readerVars>>

\* a second run of the program on the same file: the generator is seeded as it
\* was for the first run, and read starts over
SecondRun ==
    /\ pc = "read_done"
    /\ run = 1
    /\ run' = 2
    /\ rng' = Seeded(rng_seed)
    /\ first_run' = sampled
    /\ sampled' = <<>>
    /\ read_pos' = 0
    /\ pc' = "reading"
    /\ UNCHANGED <<err, orchestratorVars, reread, loadVars, fgVars, rng_seed, instances>>

\* ------------------------------------------------------------------ train
\* an entity id of the KB called name: the name, ':' and a local number
Id(name, n) == name \o <<":", n>>

\* the rows the training and development files are made of here: source id,
\* target id, label; the last one runs from B to A and belongs to no roster pair
ExamplePool ==
    { <<Id(<<"A">>, "1"), Id(<<"B">>, "1"), 1>>,
      <<Id(<<"A">>, "2"), Id(<<"B">>, "1"), 0>>,
      <<Id(<<"A">>, "1"), Id(<<"C">>, "1"), 1>>,
      <<Id(<<"B">>, "1"), Id(<<"C">>, "1"), 0>>,
      <<Id(<<"B">>, "1"), Id(<<"A">>, "1"), 1>> }
PoolIds == {e[1] : e \in ExamplePool} \cup {e[2] : e \in ExamplePool}

\* KnowledgeBase.load(self.kb_file_paths[name]): the KB of that name, holding the
\* ids that belong to it
TrainKb(name) ==
    LET ids == SeqOfSet({id \in PoolIds : SubSeq(id, 1, Len(id) - 2) = name})
    IN  Kb(name, ids, [id \in Range(ids) |-> <<>>])

RECURSIVE Combinations2(_)
\* itertools.combinations(list, 2), in the order it yields them
Combinations2(list) ==
    IF Len(list) < 2 THEN <<>>
    ELSE [i \in 1..(Len(list) - 1) |-> <<list[1], list[i + 1]>>]
             \o Combinations2(Tail(list))

\* _get_kb_fnames, line 50: what self.kb_pairs yields, once, over its lifetime
KbPairs == Combinations2(TRAINING_KBS)

RECURSIVE MatchesFrom(_, _, _, _)
\* lines 203-210: the positions (from i on) of the rows whose two ids start with
\* the two KB names; positions count from 1
MatchesFrom(data, i, s_kb_name, t_kb_name) ==
    IF i > Len(data) THEN <<>>
    ELSE (IF StartsWith(data[i][1], s_kb_name) /\ StartsWith(data[i][2], t_kb_name)
          THEN <<i>> ELSE <<>>) \o MatchesFrom(data, i + 1, s_kb_name, t_kb_name)
Matches(data, s_kb_name, t_kb_name) == MatchesFrom(data, 1, s_kb_name, t_kb_name)

\* a KB loaded only when none is held
MutNeedsLoad(kb, kb_name) == kb.name = <<>>
\* lines 221 and 223: the KB held is not the one the pair names
NeedsLoad(kb, kb_name) == kb.name # kb_name

\* line 212
MutEnoughTraining(training_matches) == Len(training_matches) >= MIN_TRAINING_SET_SIZE
EnoughTraining(training_matches) == Len(training_matches) > MIN_TRAINING_SET_SIZE

\* FeatureGenerator.calculate_features(s, t) of the generator built on two KBs:
\* the vector is a function of the pair and of the generator's token maps
FeatureVector(s_ent_id, t_ent_id, skb, tkb) ==
    [s |-> s_ent_id, t |-> t_ent_id, s_kb |-> skb.name, t_kb |-> tkb.name]
\* self.s_tokens[s_ent_id] / self.t_tokens[t_ent_id] raises KeyError
FeaturesRaise(data, matches, skb, tkb) ==
    \E k \in 1..Len(matches) :
        ~KbHas(skb, data[matches[k]][1]) \/ ~KbHas(tkb, data[matches[k]][2])
FeaturesOf(data, matches, skb, tkb) ==
    [k \in 1..Len(matches) |->
        FeatureVector(data[matches[k]][1], data[matches[k]][2], skb, tkb)]

NoFirstCall ==
    [done |-> FALSE, visited |-> <<>>, training_features |-> <<>>,
     training_labels |-> <<>>, dev_features |-> <<>>, dev_labels |-> <<>>]

\* lines 177-199: a train call starts; both files are loaded, the locals are new
TrainStart ==
    /\ pc \in {"idle", "train_done"}
    /\ train_calls < MaxTrainCalls
    /\ train_calls' = train_calls + 1
    /\ training_ordered_indices' = <<>>
    /\ training_features' = <<>>
    /\ training_labels' = [i \in 1..Len(training_data) |-> training_data[i][3]]
    /\ dev_ordered_indices' = <<>>
    /\ dev_features' = <<>>
    /\ dev_labels' = [i \in 1..Len(dev_data) |-> dev_data[i][3]]
    /\ s_kb' = EmptyKb
    /\ t_kb' = EmptyKb
    /\ kb_loads' = <<>>
    /\ generators' = <<>>
    /\ visited' = <<>>
    /\ pc' = "train_loop"
    /\ UNCHANGED <<restVars, err, caller, alignment, gold_fext, gold_rows, evalLocals, evalResult,
                   alignLoop, outVars, missed_file, kb_pairs_pos, trainInput, first_call>>

\* lines 202-241: one turn of the loop over self.kb_pairs
TrainNextPair ==
    /\ pc = "train_loop"
    /\ kb_pairs_pos < Len(KbPairs)
    /\ kb_pairs_pos' = kb_pairs_pos + 1
    /\ LET s_kb_name == KbPairs[kb_pairs_pos + 1][1]
           t_kb_name == KbPairs[kb_pairs_pos + 1][2]
           training_matches == Matches(training_data, s_kb_name, t_kb_name)
           dev_matches == Matches(dev_data, s_kb_name, t_kb_name)
           s_load == NeedsLoad(s_kb, s_kb_name)
           t_load == NeedsLoad(t_kb, t_kb_name)
           skb == IF s_load THEN TrainKb(s_kb_name) ELSE s_kb
           tkb == IF t_load THEN TrainKb(t_kb_name) ELSE t_kb
       IN  /\ visited' = Append(visited, <<s_kb_name, t_kb_name>>)
           /\ IF ~EnoughTraining(training_matches)
              THEN UNCHANGED <<pc, err, s_kb, t_kb, training_ordered_indices,
                               training_features, dev_ordered_indices, dev_features,
                               kb_loads, generators>>
              ELSE /\ training_ordered_indices' = training_ordered_indices \o training_matches
                   /\ dev_ordered_indices' = dev_ordered_indices \o dev_matches
                   /\ s_kb' = skb
                   /\ t_kb' = tkb
                   /\ kb_loads' = kb_loads \o (IF s_load THEN <<s_kb_name>> ELSE <<>>)
                                           \o (IF t_load THEN <<t_kb_name>> ELSE <<>>)
                   /\ generators' = Append(generators,
                                           [pair |-> <<s_kb_name, t_kb_name>>,
                                            s_kb |-> skb.name, t_kb |-> tkb.name])
                   /\ IF \/ FeaturesRaise(training_data, training_matches, skb, tkb)
                         \/ FeaturesRaise(dev_data, dev_matches, skb, tkb)
                      THEN /\ pc' = "raised"
                           /\ err' = "KeyError"
                           /\ UNCHANGED <<training_features, dev_features>>
                      ELSE /\ training_features' = training_features \o
                                 FeaturesOf(training_data, training_matches, skb, tkb)
                           /\ dev_features' = dev_features \o
                                 FeaturesOf(dev_data, dev_matches, skb, tkb)
                           /\ UNCHANGED <<pc, err>>
    /\ UNCHANGED <<restVars, caller, alignment, gold_fext, gold_rows, evalLocals, evalResult,
                   alignLoop, outVars, missed_file, trainInput, training_labels,
                   dev_labels, train_calls, first_call>>

\* the first labels of the file, as many as there are feature vectors
MutReorderedLabels(labels, ordered_indices) == SubSeq(labels, 1, Len(ordered_indices))
\* lines 245-247 and 256: [labels[i] for i in ordered_indices]
ReorderedLabels(labels, ordered_indices) ==
    [k \in 1..Len(ordered_indices) |-> labels[ordered_indices[k]]]

\* lines 243-266: the labels put in the order of the features; fit, score, save
TrainFinish ==
    /\ pc = "train_loop"
    /\ kb_pairs_pos = Len(KbPairs)
    /\ LET tl == ReorderedLabels(training_labels, training_ordered_indices)
           dl == ReorderedLabels(dev_labels, dev_ordered_indices)
       IN  /\ training_labels' = tl
           /\ dev_labels' = dl
           /\ first_call' =
                IF train_calls = 1
                THEN [done |-> TRUE, visited |-> visited,
                      training_features |-> training_features, training_labels |-> tl,
                      dev_features |-> dev_features, dev_labels |-> dl]
                ELSE first_call
    /\ pc' = "train_done"
    /\ UNCHANGED <<restVars, err, caller, alignment, inputVars, evalLocals, evalResult, alignLoop,
                   outVars, missed_file, kb_pairs_pos, trainInput,
                   training_ordered_indices, training_features, dev_ordered_indices,
                   dev_features, kb_loads, generators, visited, train_calls>>

\* ------------------------------------------------ claims: evaluation
\* what the specification calls the gold positives of the gold file: the pairs of
\* the rows whose label is a number greater than 0
SpecGoldPositives ==
    {<<r[1], r[2]>> : r \in {x \in gold_rows : x[3] \in {"1.0"}}}
\* the predicted pairs of the alignment handed in
SpecPredicted == {<<alignment[i][1], alignment[i][2]>> : i \in 1..Len(alignment)}
SpecHits == Cardinality(SpecPredicted \cap SpecGoldPositives)

\* C1: when evaluate_alignment returns for a non-empty predicted alignment and a
\* non-empty set of gold positives, precision = |predicted & gold| / |predicted|,
\* recall = |predicted & gold| / |gold|, and F1 is returned exactly when
\* precision + recall > 0, equal to their harmonic mean 2*hits/(|predicted|+|gold|).
C1_PrecisionRecallF1 ==
    (pc = "eval_done" /\ SpecPredicted # {} /\ SpecGoldPositives # {}) =>
        /\ FracEq(precision, Frac(SpecHits, Cardinality(SpecPredicted)))
        /\ FracEq(recall, Frac(SpecHits, Cardinality(SpecGoldPositives)))
        /\ f1_score.def <=> SpecHits > 0
        /\ f1_score.def =>
             FracEq(f1_score,
                    Frac(2 * SpecHits,
                         Cardinality(SpecPredicted) + Cardinality(SpecGoldPositives)))

\* the specification's example: two gold pairs, one of them predicted
C1_Witness ==
    /\ pc = "eval_done"
    /\ Cardinality(SpecGoldPositives) = 2
    /\ Cardinality(SpecPredicted) = 1
    /\ SpecPredicted \subseteq SpecGoldPositives
    /\ FracEq(precision, Frac(1, 1))
    /\ FracEq(recall, Frac(1, 2))
    /\ FracEq(f1_score, Frac(2, 3))

\* C2: with no gold positives evaluate_alignment never fails with a division by
\* zero: it returns normally with recall omitted.
C2_RecallDivisionGuarded ==
    /\ ~(pc = "raised" /\ err = "ZeroDivisionError")
    /\ (pc = "eval_done" /\ SpecGoldPositives = {}) => ~recall.def

\* C3: for an empty predicted alignment evaluate_alignment returns precision
\* omitted and, when there are gold positives, recall 0.0.
C3_EmptyPredictedRecallZero ==
    (pc = "eval_done" /\ alignment = <<>>) =>
        /\ ~precision.def
        /\ SpecGoldPositives # {} => FracEq(recall, Frac(0, 1))

\* the rows whose measure is a text float() rejects
UnparseableRows == {r \in gold_rows : r[3] \notin FloatParseable \cup {"", NoText}}

\* C4: a gold entry whose measure is not float-parseable is left out of the gold
\* positives and the evaluation runs to completion.
C4_UnparseableIsNonPositive ==
    (UnparseableRows # {} /\ gold_fext \in {".tsv", ".rdf"}) =>
        /\ ~(pc = "raised" /\ err = "ValueError")
        /\ pc = "eval_done" => gold_positives = SpecGoldPositives

\* the diagnostics line the specification asks for a missed pair
SpecMissedLine(p) ==
    IF p[1] \in Range(s_kb.ids) /\ p[2] \in Range(t_kb.ids)
    THEN <<p[1], p[2], AliasesOf[p[1]], AliasesOf[p[2]]>>
    ELSE <<p[1], p[2], <<>>, <<>>>>
SpecMissed == SpecGoldPositives \ SpecPredicted
DiagnosticsPassOver ==
    pc = "eval_done" \/ (pc = "raised" /\ missed_file.opened /\ missed_todo = {})

\* C5: once the diagnostics pass is over, the diagnostics file holds exactly one
\* line for every pair of gold positives minus predicted pairs and no other line,
\* the line of a pair with an unresolvable entity having both alias fields empty;
\* and a pass that wrote any line is followed by a normal return.
C5_MissedDiagnostics ==
    DiagnosticsPassOver =>
        /\ Len(missed_file.lines) = Cardinality(SpecMissed)
        /\ \A p \in SpecMissed :
             \E i \in 1..Len(missed_file.lines) : missed_file.lines[i] = SpecMissedLine(p)
        /\ \A i \in 1..Len(missed_file.lines) :
             <<missed_file.lines[i][1], missed_file.lines[i][2]>> \in SpecMissed
        /\ SpecMissed # {} => pc = "eval_done"

\* two missed pairs, one with an unresolvable target, and the call returned
C5_Witness ==
    /\ pc = "eval_done"
    /\ Len(missed_file.lines) = 2
    /\ \E i \in 1..2 :
         /\ missed_file.lines[i][1] \in Range(s_kb.ids)
         /\ missed_file.lines[i][2] \notin Range(t_kb.ids)
         /\ missed_file.lines[i][3] = <<>>
         /\ missed_file.lines[i][4] = <<>>

\* ----------------------------------------------------- claims: align
RECURSIVE SumOver(_, _)
\* the sum of f over the finite set S
SumOver(f, S) ==
    IF S = {} THEN 0
    ELSE LET x == CHOOSE y \in S : TRUE
         IN  f[x] + SumOver(f, S \ {x})

\* align's loop over the source entities has ended
AlignLoopOver == pc \notin {"align_start", "align_cand"} /\ index = Len(s_kb.ids)

\* C6: for every source entity at most K = KEEP_TOP_K_CANDIDATES candidates are
\* left after the truncation and at most K calculate_features / predict calls are
\* made, at most K times the number of source entities in all; no source entity
\* is taken twice, and when the loop has ended each was taken exactly once.
C6_TopKBoundsScoring ==
    /\ Len(cands) <= KEEP_TOP_K_CANDIDATES
    /\ \A s \in SourceIds :
         /\ feature_calls[s] <= KEEP_TOP_K_CANDIDATES
         /\ visits[s] <= 1
         /\ (s \in DOMAIN selected /\ (AlignLoopOver \/ s # s_kb.ids[index + 1])) =>
              feature_calls[s] = Min(KEEP_TOP_K_CANDIDATES, Len(selected[s]))
    /\ SumOver(feature_calls, SourceIds) <= KEEP_TOP_K_CANDIDATES * Len(s_kb.ids)
    /\ AlignLoopOver => \A s \in SourceIds : visits[s] = IF s \in Range(s_kb.ids) THEN 1 ELSE 0

\* select_candidates returned more than K ids for both source entities and each
\* was scored K times
C6_Witness ==
    /\ AlignLoopOver
    /\ Len(s_kb.ids) = 2
    /\ \A s \in Range(s_kb.ids) :
         /\ Len(selected[s]) > KEEP_TOP_K_CANDIDATES
         /\ feature_calls[s] = KEEP_TOP_K_CANDIDATES
         /\ visits[s] = 1

\* the first K ids of what select_candidates returned for s
SpecTopCandidates(s) ==
    {selected[s][i] : i \in 1..Min(KEEP_TOP_K_CANDIDATES, Len(selected[s]))}

\* C7: when align's loop has ended, the alignment holds (s, t, p) if and only if s
\* is a source entity id, t is among the first K candidates of s and the
\* classifier's probability p for (s, t) is at least SCORE_THRESHOLD.
C7_AlignmentIsThresholdedTopK ==
    AlignLoopOver =>
        \A s \in SourceIds, t \in TargetIds, p \in Scores :
            <<s, t, p>> \in Range(alignment) <=>
                /\ s \in Range(s_kb.ids)
                /\ t \in SpecTopCandidates(s)
                /\ model_probs[<<s, t>>] = p
                /\ p >= SCORE_THRESHOLD

\* a pair scored exactly at the threshold is kept, one scored below it is not
C7_Witness ==
    /\ AlignLoopOver
    /\ \E i \in 1..Len(alignment) : alignment[i][3] = SCORE_THRESHOLD
    /\ \E pair \in DOMAIN model_probs :
         /\ model_probs[pair] < SCORE_THRESHOLD
         /\ \A i \in 1..Len(alignment) : <<alignment[i][1], alignment[i][2]>> # pair

\* C10: an output path with an unknown extension ends align / write_alignment in
\* an unsupported-format error with no partial output: no alignment file, no
\* missed-pairs diagnostics file and no newly made output directory.
C10_UnknownExtensionLeavesNothing ==
    (output_path.given /\ output_path.fext \notin {".tsv", ".rdf"}) =>
        /\ pc = "raised"
        /\ err = "NotImplementedError"
        /\ ~out_file.written
        /\ ~missed_file.opened
        /\ ~out_dir_made

\* ----------------------------------------------------- claims: train
\* the KB an entity id belongs to: the text before its ':'
SpecKbOfId(id) == SubSeq(id, 1, Len(id) - 2)
\* the positions of the rows of a file that run between the two KBs of a pair
SpecRowsBetween(data, pair) ==
    {i \in 1..Len(data) : SpecKbOfId(data[i][1]) = pair[1] /\ SpecKbOfId(data[i][2]) = pair[2]}
SpecAboveThreshold(pair) ==
    Cardinality(SpecRowsBetween(training_data, pair)) > MIN_TRAINING_SET_SIZE
\* the positions of the accumulated vectors that were computed for a KB pair
VectorsFor(features, pair) ==
    {k \in 1..Len(features) : features[k].s_kb = pair[1] /\ features[k].t_kb = pair[2]}
\* the rows an index list points at, as a set of positions
IndicesFor(indices, data, pair) ==
    {k \in 1..Len(indices) : indices[k] \in SpecRowsBetween(data, pair)}

RECURSIVE SpecLoads(_, _, _)
SpecLoads(pairs, s_held, t_held) ==
    IF pairs = <<>> THEN <<>>
    ELSE (IF s_held # Head(pairs)[1] THEN <<Head(pairs)[1]>> ELSE <<>>)
           \o (IF t_held # Head(pairs)[2] THEN <<Head(pairs)[2]>> ELSE <<>>)
           \o SpecLoads(Tail(pairs), Head(pairs)[1], Head(pairs)[2])

\* C17: every FeatureGenerator a train call builds for a roster pair is built on
\* the source and target KBs of exactly those two names, a KB is loaded exactly
\* when the one held has another name than the pair asks for, and every feature
\* vector comes from the KBs its two entity ids belong to.
C17_KbCacheNeverStale ==
    /\ \A g \in 1..Len(generators) :
          /\ generators[g].s_kb = generators[g].pair[1]
          /\ generators[g].t_kb = generators[g].pair[2]
    /\ kb_loads = SpecLoads([g \in 1..Len(generators) |-> generators[g].pair], <<>>, <<>>)
    /\ \A k \in 1..Len(training_features) :
          /\ training_features[k].s_kb = SpecKbOfId(training_features[k].s)
          /\ training_features[k].t_kb = SpecKbOfId(training_features[k].t)
    /\ \A k \in 1..Len(dev_features) :
          /\ dev_features[k].s_kb = SpecKbOfId(dev_features[k].s)
          /\ dev_features[k].t_kb = SpecKbOfId(dev_features[k].t)

\* two FeatureGenerators in a row with the same source KB, which was loaded once,
\* and different target KBs
C17_Witness ==
    /\ pc = "train_done"
    /\ Len(generators) = 2
    /\ generators[1].pair[1] = generators[2].pair[1]
    /\ generators[1].pair[2] # generators[2].pair[2]
    /\ Len(kb_loads) = 3
    /\ Len(training_features) = 4

\* the rows of a file that the accumulated index list points at, in its order
SpecRowsAt(data, indices) == [k \in 1..Len(indices) |-> data[indices[k]]]

C9_TrainCallsIndependent ==
    (train_calls = 2 /\ pc = "train_done") =>
        /\ visited = first_call.visited
        /\ training_features = first_call.training_features
        /\ dev_features = first_call.dev_features

\* ------------------------------------------------------ claims: writers
\* how often x occurs in the list q
Count(q, x) == Cardinality({i \in 1..Len(q) : q[i] = x})
\* the lists p and q hold the same elements the same number of times
SameBag(p, q) ==
    /\ Len(p) = Len(q)
    /\ \A x \in Range(p) \cup Range(q) : Count(p, x) = Count(q, x)
NonIncreasing(q) == \A i \in 1..Len(q) : \A j \in i..Len(q) : q[i] >= q[j]
\* the (source id, target id) of every tuple of a list, in its order
SpecEntityPairs(q) == [i \in 1..Len(q) |-> <<q[i][1], q[i][2]>>]

\* C11: a written .tsv or .rdf file holds exactly one record per tuple of the
\* alignment, duplicates included, the records are in non-increasing order of
\* score, and the RDF document of a one-tuple alignment has exactly one <map>
\* and names the source and target KB paths as onto1 and onto2.
C11_OneRecordPerTupleByScore ==
    out_file.written =>
        LET c == out_file.content
        IN  IF out_file.format = "tsv"
            THEN /\ SameBag(SpecEntityPairs(c), SpecEntityPairs(alignment))
                 /\ NonIncreasing([i \in 1..Len(c) |-> FloatOfStr(c[i][3])])
            ELSE /\ SameBag([i \in 1..Len(c.maps) |->
                                <<c.maps[i].entity1, c.maps[i].entity2>>],
                            SpecEntityPairs(alignment))
                 /\ NonIncreasing([i \in 1..Len(c.maps) |-> c.maps[i].measure])
                 /\ Len(alignment) = 1 =>
                        /\ Len(c.maps) = 1
                        /\ c.onto1 = s_kb.name
                        /\ c.onto2 = t_kb.name

\* an RDF document written from three tuples, two of them the same, that came
\* in by rising score
C11_Witness ==
    /\ out_file.written
    /\ out_file.format = "rdf"
    /\ Len(alignment) = 3
    /\ alignment[1] = alignment[2]
    /\ alignment[2][3] < alignment[3][3]

\* C12: the mappings _load_alignment_from_tsv reads from a .tsv file that
\* write_alignment wrote are the tuples of the alignment, each as often as the
\* alignment holds it and with a score equal to the one written, whatever the
\* order; the loader raises on no written file.
C12_TsvRoundTrip ==
    /\ pc = "reread_done" => SameBag(reread, alignment)
    /\ ~(pc = "raised" /\ err = "ValueError")

\* a file of two tuples read back in another order than they were handed in, one
\* score with three decimals
C12_Witness ==
    /\ pc = "reread_done"
    /\ Len(alignment) >= 2
    /\ \E i \in 1..Len(alignment) : alignment[i][3] = 875
    /\ reread # alignment

\* ------------------------------------------------------ claims: load_kb
\* the table of the specification, row by row: what it asks of the call on a
\* path; the rows that name an extension are read for local paths, the URL row
\* for the URLs that bear an OWL extension, an unlisted one or none
SpecListed == {".json", ".pickle", ".obo", ".owl", ".rdf", ".ttl", ".n3"}
SpecExtensionOf(path) == path[Len(path)]
SpecFollowsTable(path, outcome) ==
    IF IsUrl(path)
    THEN SpecExtensionOf(path) \in {".owl", ".rdf"} \cup (KbExtensions \ SpecListed) \cup {"kb"}
            => /\ outcome.fetched
               /\ outcome.raised \in {"none", "HTTPError"}
               /\ outcome.raised = "none" => outcome.loader = "import_owl_kb"
    ELSE CASE SpecExtensionOf(path) \in {".json", ".pickle"} ->
                 outcome.raised = "none" /\ outcome.loader = "KnowledgeBase.load"
           [] SpecExtensionOf(path) = ".obo" ->
                 outcome.raised = "none" /\ outcome.loader = "import_obo_kb"
           [] SpecExtensionOf(path) \in {".owl", ".rdf"} ->
                 outcome.raised = "none" /\ outcome.loader = "import_owl_kb"
           [] SpecExtensionOf(path) \in {".ttl", ".n3"} ->
                 outcome.raised = "NotImplementedError"
           [] OTHER ->
                 outcome.raised # "none" /\ outcome.loader = "none"

\* C13: load_kb sends every path to the loader the table names for it: .json and
\* .pickle to the native load, .obo to the OBO importer, .owl and .rdf to the
\* OWL importer, .ttl and .n3 to an error, a URL to a fetch followed by the OWL
\* importer; a path with any other extension fails and returns no KB.
C13_LoadKbFollowsTable ==
    \A i \in 1..Len(kb_loaded) : SpecFollowsTable(kb_paths[i], kb_loaded[i])

\* --------------------------------------------- claims: FeatureGenerator
\* the canonical names of the two entities of a logged call, normalized
SpecSourceName(e) == NormalizeString(EntityById(s_kb, e.s).canonical_name)
SpecTargetName(e) == NormalizeString(EntityById(t_kb, e.t).canonical_name)
SpecIsOne(x) == x.den # 0 /\ x.num = x.den
SpecIsZero(x) == x.den # 0 /\ x.num = 0

\* C14: for every pair of entities whose canonical names are the same after
\* normalization, two names that normalize to the empty text included,
\* calculate_features returns has_same_canonical_name true, name_token_jaccard
\* 1.0 and inverse_name_edit_distance 1.0.
C14_SameNameScoresOne ==
    /\ \A i \in 1..Len(fg_log) :
          SpecSourceName(fg_log[i]) = SpecTargetName(fg_log[i]) =>
              /\ fg_log[i].features.has_same_canonical_name
              /\ SpecIsOne(fg_log[i].features.name_token_jaccard)
              /\ SpecIsOne(fg_log[i].features.inverse_name_edit_distance)
    /\ (pc = "raised" /\ err = "ZeroDivisionError") =>
          NormalizeString(EntityById(s_kb, fg_asked[1]).canonical_name)
              # NormalizeString(EntityById(t_kb, fg_asked[2]).canonical_name)

\* one call on two names that normalize to the empty text, one on two names
\* that are written differently and normalize to the same words
C14_Witness ==
    /\ \E i \in 1..Len(fg_log) :
          SpecSourceName(fg_log[i]) = <<>> /\ SpecTargetName(fg_log[i]) = <<>>
    /\ \E i \in 1..Len(fg_log) :
          /\ SpecSourceName(fg_log[i]) = SpecTargetName(fg_log[i])
          /\ SpecSourceName(fg_log[i]) # <<>>
          /\ EntityById(s_kb, fg_log[i].s).canonical_name
                # EntityById(t_kb, fg_log[i].t).canonical_name

\* C16 as stated: whenever has_alias_in_common is true, max_alias_token_jaccard
\* is 0.0 and inverse_min_alias_edit_distance is 1.0.
C16_AliasInCommonGivesZeroAndOne ==
    \A i \in 1..Len(fg_log) :
        fg_log[i].features.has_alias_in_common =>
            /\ SpecIsZero(fg_log[i].features.max_alias_token_jaccard)
            /\ SpecIsOne(fg_log[i].features.inverse_min_alias_edit_distance)

\* C16, amended: whenever has_alias_in_common is true the alias lists are not
\* gone through, max_alias_token_jaccard is 0.0 and
\* inverse_min_alias_edit_distance is 0.0 (1.0 minus the distance left at 1.0).
C16_AliasInCommonGivesZeroAndZero ==
    \A i \in 1..Len(fg_log) :
        fg_log[i].features.has_alias_in_common =>
            /\ SpecIsZero(fg_log[i].features.max_alias_token_jaccard)
            /\ SpecIsZero(fg_log[i].features.inverse_min_alias_edit_distance)

\* a call on two entities that share an alias with tokens, which the loops would
\* have scored
C16_Witness ==
    \E i \in 1..Len(fg_log) :
        /\ fg_log[i].features.has_alias_in_common
        /\ \E a \in Range(s_tokens[fg_log[i].s].alias_tokens)
                      \cap Range(t_tokens[fg_log[i].t].alias_tokens) : a # <<>>

\* C18: calculate_features leaves the token maps as the constructor built
\* them, and the result for a pair of ids is the same whenever it is asked
\* for, whatever was asked before.
C18_FeaturesReadOnly ==
    /\ pc \in {"fg_ready", "raised"} =>
          /\ s_tokens = TokenMap(s_kb)
          /\ t_tokens = TokenMap(t_kb)
    /\ \A i, j \in 1..Len(fg_log) :
          (fg_log[i].s = fg_log[j].s /\ fg_log[i].t = fg_log[j].t) =>
              fg_log[i].features = fg_log[j].features

\* a pair asked for, then another pair, then the first pair again
C18_Witness ==
    /\ Len(fg_log) = 3
    /\ fg_log[1].s = fg_log[3].s
    /\ fg_log[1].t = fg_log[3].t
    /\ fg_log[2].s # fg_log[1].s
    /\ fg_log[2].t # fg_log[1].t
    /\ fg_log[1].features.has_alias_in_common

\* C20: no calculate_features call on two cached ids ends in a division by
\* zero, and every numeric feature it returns lies between 0 and 1.
C20_FeaturesInUnitInterval ==
    /\ ~(pc = "raised" /\ err = "ZeroDivisionError")
    /\ \A i \in 1..Len(fg_log) :
          \A f \in NumericFeatures :
              LET x == fg_log[i].features[f]
              IN  x.den > 0 /\ 0 <= x.num /\ x.num <= x.den

\* one call on two names without tokens; one on a name without tokens and a name
\* with one, where an alias without tokens is passed over and one side has no
\* parent
C20_Witness ==
    /\ \E i \in 1..Len(fg_log) :
          /\ s_tokens[fg_log[i].s].name_tokens = <<>>
          /\ t_tokens[fg_log[i].t].name_tokens = <<>>
    /\ \E i \in 1..Len(fg_log) :
          /\ s_tokens[fg_log[i].s].name_tokens = <<>>
          /\ t_tokens[fg_log[i].t].name_tokens # <<>>
          /\ ~fg_log[i].features.has_alias_in_common
          /\ <<>> \in Range(s_tokens[fg_log[i].s].alias_tokens)
          /\ s_tokens[fg_log[i].s].parent_names = {}
          /\ t_tokens[fg_log[i].t].parent_names # {}

\* ------------------------------------------------ claims: dataset reader
\* what sample_n is asked of a list: the list itself when it is within the bound,
\* else bound many of its elements, none taken twice
SpecSampleOk(list, bound, out) ==
    IF Len(list) <= bound THEN out = list
    ELSE /\ Len(out) = bound
         /\ \A i \in 1..Len(out) : out[i] \in Range(list)
         /\ \A i, j \in 1..Len(out) : i # j => out[i] # out[j]
\* the same of the six lists kept for line k of the file
SpecLineOk(kept, k) ==
    LET s_ent == ReaderEntities[instances[k][1]]
        t_ent == ReaderEntities[instances[k][2]]
    IN  /\ SpecSampleOk(s_ent.aliases, AliasesKept, kept.s_aliases)
        /\ SpecSampleOk(t_ent.aliases, AliasesKept, kept.t_aliases)
        /\ SpecSampleOk(s_ent.par_relations, RelationsKept, kept.s_parrels)
        /\ SpecSampleOk(t_ent.par_relations, RelationsKept, kept.t_parrels)
        /\ SpecSampleOk(s_ent.chd_relations, RelationsKept, kept.s_chdrels)
        /\ SpecSampleOk(t_ent.chd_relations, RelationsKept, kept.t_chdrels)

\* C15: text_to_instance keeps a list of at most 16 aliases, or of at most 8
\* parent or child relations, as it is; of a longer list it keeps exactly 16 (8)
\* elements of the list, no position twice; and a second run seeded like the
\* first keeps the same elements in the same order, line by line.
C15_SamplingBoundedAndSeeded ==
    /\ \A k \in 1..Len(sampled) : SpecLineOk(sampled[k], k)
    /\ \A k \in 1..Len(first_run) : SpecLineOk(first_run[k], k)
    /\ run = 2 => \A k \in 1..Len(sampled) : sampled[k] = first_run[k]

\* the second run is through a file of two lines; both lines had a list within
\* its bound and a list beyond it, and the sample of a list of the second line
\* is not the one the first line got of the same list
C15_Witness ==
    /\ run = 2
    /\ pc = "read_done"
    /\ Len(sampled) = 2
    /\ instances[1] = instances[2]
    /\ sampled[1] # sampled[2]
    /\ Len(ReaderEntities[instances[1][1]].aliases) > AliasesKept
    /\ Len(ReaderEntities[instances[1][2]].aliases) < AliasesKept

\* ------------------------------------------- specification: evaluation
\* the alignments handed to a stand-alone evaluate_alignment
EvalAlignments ==
    {SeqOfSet({<<p[1], p[2], 875>> : p \in P}) : P \in BoundedSubsets(Pairs, MaxAlign)}

GoldFiles ==
    {f \in {".tsv", ".rdf", ".txt"} \X BoundedSubsets(AllGoldRows, MaxGold) :
        /\ f[1] = ".tsv" => \A r \in f[2] : r[3] # NoText
        /\ f[1] = ".txt" => f[2] = {}}

\* nothing outside evaluate_alignment, align and train has run
LoadIdle ==
    /\ kb_paths = <<>>
    /\ kb_loaded = <<>>

\* no FeatureGenerator has been built
FgIdle ==
    /\ s_tokens = <<>>
    /\ t_tokens = <<>>
    /\ fg_asked = <<>>
    /\ fg_log = <<>>

\* no dataset reader has run
ReaderIdle ==
    /\ rng_seed = 0
    /\ rng = 0
    /\ instances = <<>>
    /\ read_pos = 0
    /\ run = 0
    /\ sampled = <<>>
    /\ first_run = <<>>

RestIdle ==
    /\ reread = <<>>
    /\ LoadIdle
    /\ FgIdle
    /\ ReaderIdle

\* a new OntoEmma instance (lines 24-38) on which train has not run
TrainIdle ==
    /\ kb_pairs_pos = 0
    /\ training_data = <<>>
    /\ dev_data = <<>>
    /\ training_ordered_indices = <<>>
    /\ training_features = <<>>
    /\ training_labels = <<>>
    /\ dev_ordered_indices = <<>>
    /\ dev_features = <<>>
    /\ dev_labels = <<>>
    /\ kb_loads = <<>>
    /\ generators = <<>>
    /\ visited = <<>>
    /\ train_calls = 0
    /\ first_call = NoFirstCall

\* nothing of align has run
AlignIdle ==
    /\ index = 0
    /\ cands = <<>>
    /\ selected = <<>>
    /\ feature_calls = [s \in SourceIds |-> 0]
    /\ visits = [s \in SourceIds |-> 0]
    /\ model_probs = <<>>
    /\ output_path = [given |-> FALSE, dir |-> "", fext |-> ""]
    /\ out_dir_made = FALSE
    /\ out_file = [written |-> FALSE]

InitEval ==
    /\ pc = "eval_load"
    /\ err = "none"
    /\ caller = "top"
    /\ AlignIdle
    /\ TrainIdle
    /\ RestIdle
    /\ \E f \in GoldFiles : gold_fext = f[1] /\ gold_rows = f[2]
    /\ alignment \in EvalAlignments
    /\ s_kb = EvalSourceKb
    /\ t_kb = EvalTargetKb
    /\ gold_positives = {}
    /\ alignment_positives = {}
    /\ missed_todo = {}
    /\ missed_file = [opened |-> FALSE, lines |-> <<>>]
    /\ precision = NoValue
    /\ recall = NoValue
    /\ f1_score = NoValue

NextEval == EvalLoadGold \/ EvalOpenMissed \/ EvalWriteMissed \/ EvalScore

SpecEval == InitEval /\ [][NextEval]_vars
\* ----------------------------------------------- specification: align
InitAlign ==
    /\ pc = "align_start"
    /\ err = "none"
    /\ caller = "top"
    /\ AlignIdle
    /\ TrainIdle
    /\ RestIdle
    /\ gold_fext = ""
    /\ gold_rows = {}
    /\ alignment = <<>>
    /\ s_kb = EmptyKb
    /\ t_kb = EmptyKb
    /\ gold_positives = {}
    /\ alignment_positives = {}
    /\ missed_todo = {}
    /\ missed_file = [opened |-> FALSE, lines |-> <<>>]
    /\ precision = NoValue
    /\ recall = NoValue
    /\ f1_score = NoValue

NextAlign ==
    \/ AlignStart \/ AlignNextSource \/ AlignScoreCandidate \/ AlignSourceDone
    \/ AlignAfterLoop \/ AlignEvalReturn \/ AlignWrite
    \/ EvalLoadGold \/ EvalOpenMissed \/ EvalWriteMissed \/ EvalScore

SpecAlign == InitAlign /\ [][NextAlign]_vars
\* ----------------------------------------------- specification: train
\* the rows a training file is made of, and those a development file is made of
TrainingRows == {e \in ExamplePool : e[1] # Id(<<"B">>, "1") \/ e[2] # Id(<<"A">>, "1")}
DevRows ==
    {e \in ExamplePool :
        \/ e[1] = Id(<<"B">>, "1")
        \/ e[1] = Id(<<"A">>, "1") /\ e[2] = Id(<<"B">>, "1")}

InitTrain ==
    /\ pc = "idle"
    /\ err = "none"
    /\ caller = "top"
    /\ AlignIdle
    /\ kb_pairs_pos = 0
    /\ training_data \in SeqsUpTo(TrainingRows, MaxTrain)
    /\ dev_data \in SeqsUpTo(DevRows, MaxDev)
    /\ training_ordered_indices = <<>>
    /\ training_features = <<>>
    /\ training_labels = <<>>
    /\ dev_ordered_indices = <<>>
    /\ dev_features = <<>>
    /\ dev_labels = <<>>
    /\ kb_loads = <<>>
    /\ generators = <<>>
    /\ visited = <<>>
    /\ train_calls = 0
    /\ first_call = NoFirstCall
    /\ RestIdle
    /\ gold_fext = ""
    /\ gold_rows = {}
    /\ alignment = <<>>
    /\ s_kb = EmptyKb
    /\ t_kb = EmptyKb
    /\ gold_positives = {}
    /\ alignment_positives = {}
    /\ missed_todo = {}
    /\ missed_file = [opened |-> FALSE, lines |-> <<>>]
    /\ precision = NoValue
    /\ recall = NoValue
    /\ f1_score = NoValue

NextTrain == TrainStart \/ TrainNextPair \/ TrainFinish

SpecTrain == InitTrain /\ [][NextTrain]_vars
\* ------------------------------------------- specification: load_kb
\* the two load_kb calls with which align and eval_cs begin
InitLoad ==
    /\ pc = "load_s_kb"
    /\ err = "none"
    /\ caller = "top"
    /\ AlignIdle
    /\ TrainIdle
    /\ reread = <<>>
    /\ FgIdle
    /\ ReaderIdle
    /\ kb_paths \in KbPaths \X KbPaths
    /\ kb_loaded = <<>>
    /\ gold_fext = ""
    /\ gold_rows = {}
    /\ alignment = <<>>
    /\ s_kb = EmptyKb
    /\ t_kb = EmptyKb
    /\ gold_positives = {}
    /\ alignment_positives = {}
    /\ missed_todo = {}
    /\ missed_file = [opened |-> FALSE, lines |-> <<>>]
    /\ precision = NoValue
    /\ recall = NoValue
    /\ f1_score = NoValue

NextLoad == LoadSourceKb \/ LoadTargetKb

SpecLoad == InitLoad /\ [][NextLoad]_vars
\* ------------------------------------ specification: FeatureGenerator
\* a FeatureGenerator built on two KBs, then asked for features
InitFeatures ==
    /\ pc = "fg_new"
    /\ err = "none"
    /\ caller = "top"
    /\ AlignIdle
    /\ TrainIdle
    /\ RestIdle
    /\ gold_fext = ""
    /\ gold_rows = {}
    /\ alignment = <<>>
    /\ s_kb = FgSourceKb
    /\ t_kb = FgTargetKb
    /\ gold_positives = {}
    /\ alignment_positives = {}
    /\ missed_todo = {}
    /\ missed_file = [opened |-> FALSE, lines |-> <<>>]
    /\ precision = NoValue
    /\ recall = NoValue
    /\ f1_score = NoValue

NextFeatures == BuildGenerator \/ CalculateFeatures

SpecFeatures == InitFeatures /\ [][NextFeatures]_vars
\* -------------------------------------- specification: dataset reader
\* the seeds the program is run with
Seeds == {1, 7, 42}
\* the data files: lists of (source entity, target entity)
DataFiles == SeqsUpTo((DOMAIN ReaderEntities) \X (DOMAIN ReaderEntities), MaxInstances)

InitReader ==
    /\ pc = "reading"
    /\ err = "none"
    /\ caller = "top"
    /\ AlignIdle
    /\ TrainIdle
    /\ reread = <<>>
    /\ LoadIdle
    /\ FgIdle
    /\ rng_seed \in Seeds
    /\ rng = Seeded(rng_seed)
    /\ instances \in DataFiles
    /\ read_pos = 0
    /\ run = 1
    /\ sampled = <<>>
    /\ first_run = <<>>
    /\ gold_fext = ""
    /\ gold_rows = {}
    /\ alignment = <<>>
    /\ s_kb = EmptyKb
    /\ t_kb = EmptyKb
    /\ gold_positives = {}
    /\ alignment_positives = {}
    /\ missed_todo = {}
    /\ missed_file = [opened |-> FALSE, lines |-> <<>>]
    /\ precision = NoValue
    /\ recall = NoValue
    /\ f1_score = NoValue

NextReader == ReadLine \/ ReadReturn \/ SecondRun

SpecReader == InitReader /\ [][NextReader]_vars
\* ------------------------------------- specification: write_alignment
\* the scores of the tuples handed to write_alignment, in thousandths
WrittenScores == {5, 700, 875, 1000}
\* the alignments handed to write_alignment
WrittenAlignments ==
    SeqsUpTo({<<"s1", t, v>> : t \in TargetIds, v \in WrittenScores}, MaxWritten)

InitWrite ==
    /\ pc = "align_write"
    /\ err = "none"
    /\ caller = "top"
    /\ AlignIdle
    /\ TrainIdle
    /\ RestIdle
    /\ gold_fext = ""
    /\ gold_rows = {}
    /\ alignment \in WrittenAlignments
    /\ s_kb = KbOf(<<"s.owl">>, <<"s1">>)
    /\ t_kb = AlignTargetKb
    /\ gold_positives = {}
    /\ alignment_positives = {}
    /\ missed_todo = {}
    /\ missed_file = [opened |-> FALSE, lines |-> <<>>]
    /\ precision = NoValue
    /\ recall = NoValue
    /\ f1_score = NoValue

NextWrite == AlignWrite \/ LoadWrittenTsv

SpecWrite == InitWrite /\ [][NextWrite]_vars
====
